---- MODULE Spec2Model ----
(***************************************************************************)
(* A model of the wordle_solver crate: the scorer (check_guess), the       *)
(* constraint store (Wordle::add_guess, Wordle::is_solved), the filter     *)
(* (filter_dictionary), the selector (choose_next_guess) and the driver    *)
(* loop of main.                                                           *)
(*                                                                         *)
(* A String is a sequence of one-character strings.  Positions stored in   *)
(* correct_letters are 0-based, as in the code; a call's outcome is a      *)
(* record [kind |-> "ok", val |-> v] or [kind |-> "panic"].                *)
(***************************************************************************)
EXTENDS Integers, Sequences, FiniteSets, TLC

\* ------------------------------------------------------------------ bounds
\* longest word drawn as an input
MaxWordLen == 2
\* longest word list drawn for a session of main
MaxDict == 3
\* most characters guessed in all of a store's history
MaxEvidence == 2
\* most guesses recorded in a store's history
MaxGuesses == 2
\* most constraint entries (excluded + required + pinned) drawn for the filter
MaxConstraints == 2
\* longest word list drawn for the selector
MaxSelDict == 11

\* ------------------------------------------------------ program constants
\* choose_next_guess: a dictionary of fewer words is sampled once
SmallDict == 10
\* choose_next_guess: after more samples than this, any sample is returned
MaxRejections == 4

\* --------------------------------------------------------------- inputs
Letters == <<"a", "b", "c">>

Alphabet == { Letters[i] : i \in 1..Len(Letters) }

WordsOfLen(n) == [1..n -> Alphabet]

AllWords == UNION { WordsOfLen(n) : n \in 0..MaxWordLen }

SeqsUpTo(S, n) == UNION { [1..k -> S] : k \in 0..n }

\* the words a session of main is run on: the three words of the end-to-end
\* scenario, an anagram and a near miss of its target, a prefix of it, and
\* an empty line
Vocabulary ==
  { <<"h", "e", "l", "l", "o">>, <<"s", "h", "i", "r", "t">>,
    <<"s", "k", "i", "r", "t">>, <<"s", "t", "i", "r", "k">>,
    <<"t", "r", "i", "t", "e">>, <<"s", "k", "i">>, <<>> }

RECURSIVE EnumWords(_)
\* the words of length n, in dictionary order
EnumWords(n) ==
  IF n = 0 THEN << <<>> >>
  ELSE LET prev == EnumWords(n - 1) IN
       [k \in 1..(Len(Letters) * Len(prev)) |->
          <<Letters[((k - 1) \div Len(prev)) + 1]>>
            \o prev[((k - 1) % Len(prev)) + 1]]

RECURSIVE LexiconUpTo(_)
LexiconUpTo(n) == IF n < 0 THEN <<>> ELSE LexiconUpTo(n - 1) \o EnumWords(n)

\* a word list holding every word once
Lexicon == LexiconUpTo(MaxWordLen)

Reverse(s) == [k \in 1..Len(s) |-> s[Len(s) + 1 - k]]

\* ----------------------------------------------------------------- state
VARIABLES
  guesses,            \* Wordle.guesses: Vec<Guess>
  dictionary,         \* Wordle.dictionary: Vec<String>
  incorrect_letters,  \* Wordle.incorrect_letters: Vec<char>
  correct_letters,    \* Wordle.correct_letters: Vec<(char, u32)>
  misplaced_letters,  \* Wordle.misplaced_letters: Vec<char>
  lines,              \* main: the word list read from Config.wordfile
  init_guess,         \* Config.init_guess
  target,             \* Config.target
  word,               \* the word argument of the function under call
  num_choices,        \* choose_next_guess: samples drawn so far
  choice,             \* choose_next_guess: index of the current sample
  ret,                \* outcome of the last call
  pc                  \* position of the caller

vars == <<guesses, dictionary, incorrect_letters, correct_letters,
          misplaced_letters, lines, init_guess, target, word, num_choices,
          choice, ret, pc>>

wordle == <<guesses, dictionary, incorrect_letters, correct_letters,
            misplaced_letters>>

config == <<lines, init_guess, target>>

locals == <<word, num_choices, choice>>

Ok(v) == [kind |-> "ok", val |-> v]

Panic == [kind |-> "panic"]

NoRet == [kind |-> "none"]

\* ----------------------------------------------------------- Correctness
Correctness == {"Correct", "IncorrectPlacement", "Incorrect"}

\* str::contains(char)
contains(w, c) == \E j \in 1..Len(w) : w[j] = c

\* ------------------------------------------------------------ check_guess
RECURSIVE check_guess_loop_suffix(_, _, _, _)
\* check_guess_loop, but the membership test looks only at word[i..]
check_guess_loop_suffix(guess_chars, word_chars, i, correctness) ==
  IF i >= Len(guess_chars) THEN Ok(correctness)
  ELSE IF i >= Len(word_chars) THEN Panic
  ELSE IF guess_chars[i + 1] = word_chars[i + 1]
    THEN check_guess_loop_suffix(guess_chars, word_chars, i + 1,
                                 Append(correctness, "Correct"))
  ELSE IF contains(SubSeq(word_chars, i + 1, Len(word_chars)), guess_chars[i + 1])
    THEN check_guess_loop_suffix(guess_chars, word_chars, i + 1,
                                 Append(correctness, "IncorrectPlacement"))
  ELSE check_guess_loop_suffix(guess_chars, word_chars, i + 1,
                               Append(correctness, "Incorrect"))

RECURSIVE check_guess_loop_first(_, _, _, _)
\* check_guess_loop, but the equality test reads word_chars[0]
check_guess_loop_first(guess_chars, word_chars, i, correctness) ==
  IF i >= Len(guess_chars) THEN Ok(correctness)
  ELSE IF i >= Len(word_chars) THEN Panic
  ELSE IF guess_chars[i + 1] = word_chars[1]
    THEN check_guess_loop_first(guess_chars, word_chars, i + 1,
                                Append(correctness, "Correct"))
  ELSE IF contains(word_chars, guess_chars[i + 1])
    THEN check_guess_loop_first(guess_chars, word_chars, i + 1,
                                Append(correctness, "IncorrectPlacement"))
  ELSE check_guess_loop_first(guess_chars, word_chars, i + 1,
                              Append(correctness, "Incorrect"))

RECURSIVE check_guess_loop_noabsent(_, _, _, _)
\* check_guess_loop, but the last branch pushes IncorrectPlacement too
check_guess_loop_noabsent(guess_chars, word_chars, i, correctness) ==
  IF i >= Len(guess_chars) THEN Ok(correctness)
  ELSE IF i >= Len(word_chars) THEN Panic
  ELSE IF guess_chars[i + 1] = word_chars[i + 1]
    THEN check_guess_loop_noabsent(guess_chars, word_chars, i + 1,
                                   Append(correctness, "Correct"))
  ELSE check_guess_loop_noabsent(guess_chars, word_chars, i + 1,
                                 Append(correctness, "IncorrectPlacement"))

RECURSIVE check_guess_loop(_, _, _, _)
\* the for loop of check_guess; i is the 0-based loop index
check_guess_loop(guess_chars, word_chars, i, correctness) ==
  IF i >= Len(guess_chars) THEN Ok(correctness)
  ELSE IF i >= Len(word_chars) THEN Panic   \* word_chars[i] out of bounds
  ELSE IF guess_chars[i + 1] = word_chars[i + 1]
    THEN check_guess_loop(guess_chars, word_chars, i + 1,
                          Append(correctness, "Correct"))
  ELSE IF contains(word_chars, guess_chars[i + 1])
    THEN check_guess_loop(guess_chars, word_chars, i + 1,
                          Append(correctness, "IncorrectPlacement"))
  ELSE check_guess_loop(guess_chars, word_chars, i + 1,
                        Append(correctness, "Incorrect"))

check_guess(guess, w) == check_guess_loop(guess, w, 0, <<>>)

\* ------------------------------------------------------ filter_dictionary
RECURSIVE any_contained(_, _, _)
\* first loop: does word contain incorrect_letters[k..]?
any_contained(w, letters, k) ==
  IF k > Len(letters) THEN FALSE
  ELSE IF contains(w, letters[k]) THEN TRUE
  ELSE any_contained(w, letters, k + 1)

RECURSIVE any_missing(_, _, _)
\* second loop: does word lack one of misplaced_letters[k..]?
any_missing(w, letters, k) ==
  IF k > Len(letters) THEN FALSE
  ELSE IF ~contains(w, letters[k]) THEN TRUE
  ELSE any_missing(w, letters, k + 1)

RECURSIVE pins_match_offbyone(_, _, _)
\* pins_match, but it reads the character after the pinned position
pins_match_offbyone(w, pins, k) ==
  IF k > Len(pins) THEN Ok(TRUE)
  ELSE IF pins[k][2] + 1 >= Len(w) THEN Panic
  ELSE IF w[pins[k][2] + 2] /= pins[k][1] THEN Ok(FALSE)
  ELSE pins_match_offbyone(w, pins, k + 1)

RECURSIVE pins_match(_, _, _)
\* third loop: word.chars().nth(i).unwrap() != c, in the order of the Vec;
\* nth(i) is None, and unwrap panics, when i is not an index of word
pins_match(w, pins, k) ==
  IF k > Len(pins) THEN Ok(TRUE)
  ELSE IF pins[k][2] >= Len(w) THEN Panic
  ELSE IF w[pins[k][2] + 1] /= pins[k][1] THEN Ok(FALSE)
  ELSE pins_match(w, pins, k + 1)

\* filter_dictionary, but a letter that is also required is not excluded
filter_dictionary_reconciled(w, incorrect, misplaced, correct) ==
  IF any_contained(w, SelectSeq(incorrect,
                                LAMBDA c : \A k \in 1..Len(misplaced) :
                                             misplaced[k] /= c), 1)
    THEN Ok(FALSE)
  ELSE IF any_missing(w, misplaced, 1) THEN Ok(FALSE)
  ELSE pins_match(w, correct, 1)

\* filter_dictionary without its second loop
filter_dictionary_norequired(w, incorrect, misplaced, correct) ==
  IF any_contained(w, incorrect, 1) THEN Ok(FALSE)
  ELSE pins_match(w, correct, 1)

filter_dictionary(w, incorrect, misplaced, correct) ==
  IF any_contained(w, incorrect, 1) THEN Ok(FALSE)
  ELSE IF any_missing(w, misplaced, 1) THEN Ok(FALSE)
  ELSE pins_match(w, correct, 1)

\* ------------------------------------------------------ Wordle::add_guess
\* a Guess: [guess |-> String, result |-> Vec<Correctness>]
Last(s) == s[Len(s)]

RECURSIVE record_letters_swapped(_, _, _, _, _)
\* record_letters, but a misplaced letter is pushed onto incorrect_letters
\* and an incorrect one onto misplaced_letters
record_letters_swapped(g, i, incorrect, correct, misplaced) ==
  IF i >= Len(g.guess)
    THEN [panicked |-> FALSE, incorrect_letters |-> incorrect,
          correct_letters |-> correct, misplaced_letters |-> misplaced]
  ELSE IF i >= Len(g.result)
    THEN [panicked |-> TRUE, incorrect_letters |-> incorrect,
          correct_letters |-> correct, misplaced_letters |-> misplaced]
  ELSE IF g.result[i + 1] = "Correct"
    THEN record_letters_swapped(g, i + 1, incorrect,
                                Append(correct, <<g.guess[i + 1], i>>),
                                misplaced)
  ELSE IF g.result[i + 1] = "IncorrectPlacement"
    THEN record_letters_swapped(g, i + 1, Append(incorrect, g.guess[i + 1]),
                                correct, misplaced)
  ELSE record_letters_swapped(g, i + 1, incorrect, correct,
                              Append(misplaced, g.guess[i + 1]))

RECURSIVE record_letters_onebased(_, _, _, _, _)
\* record_letters, but a pinned position is stored 1-based
record_letters_onebased(g, i, incorrect, correct, misplaced) ==
  IF i >= Len(g.guess)
    THEN [panicked |-> FALSE, incorrect_letters |-> incorrect,
          correct_letters |-> correct, misplaced_letters |-> misplaced]
  ELSE IF i >= Len(g.result)
    THEN [panicked |-> TRUE, incorrect_letters |-> incorrect,
          correct_letters |-> correct, misplaced_letters |-> misplaced]
  ELSE IF g.result[i + 1] = "Correct"
    THEN record_letters_onebased(g, i + 1, incorrect,
                                 Append(correct, <<g.guess[i + 1], i + 1>>),
                                 misplaced)
  ELSE IF g.result[i + 1] = "IncorrectPlacement"
    THEN record_letters_onebased(g, i + 1, incorrect, correct,
                                 Append(misplaced, g.guess[i + 1]))
  ELSE record_letters_onebased(g, i + 1, Append(incorrect, g.guess[i + 1]),
                               correct, misplaced)

RECURSIVE record_letters(_, _, _, _, _)
\* the for loop of add_guess over g.guess.chars().enumerate(); i is 0-based;
\* g.result[i] panics when the result is shorter than the guess
record_letters(g, i, incorrect, correct, misplaced) ==
  IF i >= Len(g.guess)
    THEN [panicked |-> FALSE, incorrect_letters |-> incorrect,
          correct_letters |-> correct, misplaced_letters |-> misplaced]
  ELSE IF i >= Len(g.result)
    THEN [panicked |-> TRUE, incorrect_letters |-> incorrect,
          correct_letters |-> correct, misplaced_letters |-> misplaced]
  ELSE IF g.result[i + 1] = "Correct"
    THEN record_letters(g, i + 1, incorrect,
                        Append(correct, <<g.guess[i + 1], i>>), misplaced)
  ELSE IF g.result[i + 1] = "IncorrectPlacement"
    THEN record_letters(g, i + 1, incorrect, correct,
                        Append(misplaced, g.guess[i + 1]))
  ELSE record_letters(g, i + 1, Append(incorrect, g.guess[i + 1]),
                      correct, misplaced)

\* Vec::swap_remove: the last word takes the place of the removed one
swap_remove(dict, k) ==
  [j \in 1..(Len(dict) - 1) |-> IF j = k THEN dict[Len(dict)] ELSE dict[j]]

RECURSIVE retain_swap(_, _, _, _, _, _, _)
\* retain, but a rejected word is taken out with swap_remove
retain_swap(dict, k, kept, incorrect, misplaced, correct, guess) ==
  IF k > Len(dict) THEN [panicked |-> FALSE, dictionary |-> dict]
  ELSE LET f == filter_dictionary(dict[k], incorrect, misplaced, correct) IN
       IF f.kind = "panic" THEN [panicked |-> TRUE, dictionary |-> dict]
       ELSE IF f.val /\ dict[k] /= guess
         THEN retain_swap(dict, k + 1, kept, incorrect, misplaced, correct,
                          guess)
       ELSE retain_swap(swap_remove(dict, k), k, kept, incorrect, misplaced,
                        correct, guess)

RECURSIVE retain_skip(_, _, _, _, _, _, _)
\* retain, but the word after a removed one is kept unexamined
retain_skip(dict, k, kept, incorrect, misplaced, correct, guess) ==
  IF k > Len(dict) THEN [panicked |-> FALSE, dictionary |-> kept]
  ELSE LET f == filter_dictionary(dict[k], incorrect, misplaced, correct) IN
       IF f.kind = "panic"
         THEN [panicked |-> TRUE,
               dictionary |-> kept \o SubSeq(dict, k, Len(dict))]
       ELSE IF f.val /\ dict[k] /= guess
         THEN retain_skip(dict, k + 1, Append(kept, dict[k]),
                          incorrect, misplaced, correct, guess)
       ELSE IF k < Len(dict)
         THEN retain_skip(dict, k + 2, Append(kept, dict[k + 1]),
                          incorrect, misplaced, correct, guess)
       ELSE retain_skip(dict, k + 1, kept, incorrect, misplaced, correct,
                        guess)

RECURSIVE retain_keepguess(_, _, _, _, _, _, _)
\* retain, but the closure is filter_dictionary(..) alone
retain_keepguess(dict, k, kept, incorrect, misplaced, correct, guess) ==
  IF k > Len(dict) THEN [panicked |-> FALSE, dictionary |-> kept]
  ELSE LET f == filter_dictionary(dict[k], incorrect, misplaced, correct) IN
       IF f.kind = "panic"
         THEN [panicked |-> TRUE,
               dictionary |-> kept \o SubSeq(dict, k, Len(dict))]
       ELSE IF f.val
         THEN retain_keepguess(dict, k + 1, Append(kept, dict[k]),
                               incorrect, misplaced, correct, guess)
       ELSE retain_keepguess(dict, k + 1, kept, incorrect, misplaced,
                             correct, guess)

RECURSIVE retain(_, _, _, _, _, _, _)
\* self.dictionary.retain(|word| filter_dictionary(..) && word != &g.guess):
\* kept holds the words retained among dict[1..k-1].  When the closure
\* panics on dict[k], Vec::retain leaves the retained words followed by
\* dict[k..].
retain(dict, k, kept, incorrect, misplaced, correct, guess) ==
  IF k > Len(dict) THEN [panicked |-> FALSE, dictionary |-> kept]
  ELSE LET f == filter_dictionary(dict[k], incorrect, misplaced, correct) IN
       IF f.kind = "panic"
         THEN [panicked |-> TRUE,
               dictionary |-> kept \o SubSeq(dict, k, Len(dict))]
       ELSE IF f.val /\ dict[k] /= guess
         THEN retain(dict, k + 1, Append(kept, dict[k]),
                     incorrect, misplaced, correct, guess)
       ELSE retain(dict, k + 1, kept, incorrect, misplaced, correct, guess)

\* the Wordle after add_guess(g), and whether the call panicked
add_guess(gs, dict, incorrect, correct, misplaced, g) ==
  LET pushed == Append(gs, g)
      rec == record_letters(Last(pushed), 0, incorrect, correct, misplaced)
      kept == retain(dict, 1, <<>>, rec.incorrect_letters,
                     rec.misplaced_letters, rec.correct_letters,
                     Last(pushed).guess)
  IN [guesses |-> pushed,
      incorrect_letters |-> rec.incorrect_letters,
      correct_letters |-> rec.correct_letters,
      misplaced_letters |-> rec.misplaced_letters,
      dictionary |-> IF rec.panicked THEN dict ELSE kept.dictionary,
      panicked |-> rec.panicked \/ kept.panicked]

\* ------------------------------------------------------ Wordle::is_solved
RECURSIVE all_correct_any(_, _)
\* all_correct, but it returns true at the first Correct it meets
all_correct_any(result, k) ==
  IF k > Len(result) THEN FALSE
  ELSE IF result[k] = "Correct" THEN TRUE
  ELSE all_correct_any(result, k + 1)

RECURSIVE all_correct(_, _)
\* the for loop of is_solved over last_guess.result
all_correct(result, k) ==
  IF k > Len(result) THEN TRUE
  ELSE IF result[k] /= "Correct" THEN FALSE
  ELSE all_correct(result, k + 1)

\* is_solved, but it reads guesses.first()
is_solved_first(gs) ==
  IF Len(gs) = 0 THEN Panic ELSE Ok(all_correct(gs[1].result, 1))

\* guesses.last().unwrap() panics when no guess was recorded
is_solved(gs) ==
  IF Len(gs) = 0 THEN Panic ELSE Ok(all_correct(Last(gs).result, 1))

\* ------------------------------------------------------ has_double_letter
RECURSIVE has_double_letter_loop(_, _, _)
\* the for loop of has_double_letter; set holds the characters seen
has_double_letter_loop(w, k, set) ==
  IF k > Len(w) THEN FALSE
  ELSE IF w[k] \in set THEN TRUE
  ELSE has_double_letter_loop(w, k + 1, set \cup {w[k]})

has_double_letter(w) == has_double_letter_loop(w, 1, {})

\* ------------------------------------------------------ choose_next_guess
Again == [kind |-> "again"]

\* choose_step, but it gives up with an empty String once the samples run out
choose_step_default(dict, idx, n) ==
  IF Len(dict) < SmallDict \/ ~has_double_letter(dict[idx])
    THEN Ok(dict[idx])
  ELSE IF n > MaxRejections THEN Ok(<<>>)
  ELSE Again

\* choose_step, but the counter is compared one too high
choose_step_late(dict, idx, n) ==
  IF Len(dict) < SmallDict \/ ~has_double_letter(dict[idx])
       \/ n > MaxRejections + 1
    THEN Ok(dict[idx])
  ELSE Again

\* one turn of the loop after dict[idx] was sampled and num_choices was
\* raised to n: return the sample, or go round again
choose_step(dict, idx, n) ==
  IF Len(dict) < SmallDict \/ ~has_double_letter(dict[idx])
       \/ n > MaxRejections
    THEN Ok(dict[idx])
  ELSE Again

\* ===================================================== scorer, called alone
InitScore ==
  /\ init_guess \in AllWords
  /\ target \in AllWords
  /\ guesses = <<>> /\ dictionary = <<>> /\ lines = <<>>
  /\ incorrect_letters = <<>> /\ correct_letters = <<>>
  /\ misplaced_letters = <<>>
  /\ word = <<>> /\ num_choices = 0 /\ choice = 0
  /\ ret = NoRet
  /\ pc = "score"

Score ==
  /\ pc = "score"
  /\ ret' = check_guess(init_guess, target)
  /\ pc' = "scored"
  /\ UNCHANGED <<wordle, config, locals>>

NextScore == Score

SpecScore == InitScore /\ [][NextScore]_vars

\* ------------------------------------------------- claims about the scorer
Occurrences(w, c) == Cardinality({ j \in 1..Len(w) : w[j] = c })

\* C1: for a guess and a target of equal length L, check_guess returns L
\* classifications; position i is Correct iff guess[i] = target[i],
\* IncorrectPlacement iff guess[i] /= target[i] and the target contains
\* guess[i] somewhere, and Incorrect otherwise (so every occurrence of a
\* repeated guess letter that the target contains is Correct or Misplaced).
C1_ScoreClassification ==
  (pc = "scored" /\ Len(init_guess) = Len(target)) =>
    /\ ret.kind = "ok"
    /\ Len(ret.val) = Len(target)
    /\ \A i \in 1..Len(target) :
         /\ (ret.val[i] = "Correct") <=> (init_guess[i] = target[i])
         /\ (ret.val[i] = "IncorrectPlacement") <=>
              (init_guess[i] /= target[i]
                 /\ \E j \in 1..Len(target) : target[j] = init_guess[i])
         /\ (ret.val[i] = "Incorrect") <=>
              (\A j \in 1..Len(target) : target[j] /= init_guess[i])

\* a guess with a letter twice, a target with that letter once, and both
\* occurrences scored Correct or IncorrectPlacement
C1_Witness ==
  /\ pc = "scored" /\ ret.kind = "ok" /\ Len(init_guess) = Len(target)
  /\ \E i, j \in 1..Len(init_guess) :
       /\ i < j /\ init_guess[i] = init_guess[j]
       /\ Occurrences(target, init_guess[i]) = 1
       /\ ret.val[i] = "IncorrectPlacement" /\ ret.val[j] = "Correct"

\* C2: scoring a word against itself yields Correct at every position.
C2_SelfScoreAllCorrect ==
  (pc = "scored" /\ init_guess = target) =>
    ret = Ok([i \in 1..Len(target) |-> "Correct"])

C2_Witness ==
  /\ pc = "scored" /\ init_guess = target /\ Len(target) = MaxWordLen
  /\ \E i, j \in 1..Len(target) : target[i] /= target[j]
  /\ ret.kind = "ok"

\* C3: when guess and target have equal length and share no letter,
\* check_guess yields Incorrect at every position.
C3_DisjointAllIncorrect ==
  (/\ pc = "scored" /\ Len(init_guess) = Len(target)
   /\ \A i \in 1..Len(init_guess), j \in 1..Len(target) :
        init_guess[i] /= target[j]) =>
    ret = Ok([i \in 1..Len(init_guess) |-> "Incorrect"])

C3_Witness ==
  /\ pc = "scored" /\ Len(init_guess) = MaxWordLen
  /\ Len(target) = MaxWordLen
  /\ \A i \in 1..Len(init_guess), j \in 1..Len(target) :
       init_guess[i] /= target[j]
  /\ ret.kind = "ok" /\ Len(ret.val) = MaxWordLen

\* ===================================================== filter, called alone
\* a pinned entry: a character and a 0-based position (u32)
Pins == Alphabet \X (0..MaxWordLen)

InitFilter ==
  /\ word \in AllWords
  /\ incorrect_letters \in SeqsUpTo(Alphabet, MaxConstraints)
  /\ misplaced_letters \in
       SeqsUpTo(Alphabet, MaxConstraints - Len(incorrect_letters))
  /\ correct_letters \in
       SeqsUpTo(Pins, MaxConstraints - Len(incorrect_letters)
                        - Len(misplaced_letters))
  /\ guesses = <<>> /\ dictionary = <<>> /\ lines = <<>>
  /\ init_guess = <<>> /\ target = <<>>
  /\ num_choices = 0 /\ choice = 0
  /\ ret = NoRet
  /\ pc = "filter"

Filter ==
  /\ pc = "filter"
  /\ ret' = filter_dictionary(word, incorrect_letters, misplaced_letters,
                              correct_letters)
  /\ pc' = "filtered"
  /\ UNCHANGED <<wordle, config, locals>>

NextFilter == Filter

SpecFilter == InitFilter /\ [][NextFilter]_vars

\* ------------------------------------------------- claims about the filter
Range(s) == { s[k] : k \in 1..Len(s) }

\* C4: filter_dictionary returns true iff the word contains no excluded
\* letter, contains every required letter (anywhere, any number of times)
\* and has, for every pinned (character, position), that character at that
\* position; a word that breaks one of the three is never retained.
C4_FilterIff ==
  pc = "filtered" =>
    ((ret = Ok(TRUE)) <=>
       /\ \A c \in Range(incorrect_letters) : c \notin Range(word)
       /\ \A c \in Range(misplaced_letters) : c \in Range(word)
       /\ \A pin \in Range(correct_letters) :
            pin[2] < Len(word) /\ word[pin[2] + 1] = pin[1])

\* a word retained under one required and one pinned letter, the required
\* letter sitting elsewhere than the pinned position
C4_Witness ==
  /\ pc = "filtered" /\ ret = Ok(TRUE)
  /\ Len(misplaced_letters) = 1 /\ Len(correct_letters) = 1
  /\ misplaced_letters[1] /= correct_letters[1][1]

\* ============================================ the store, called by anyone
\* the word lists a store starts from: every word of every length, every
\* word of the longest length, and a list with each of the latter twice
StoreDicts ==
  { Lexicon, EnumWords(MaxWordLen),
    Reverse(EnumWords(MaxWordLen)) \o EnumWords(MaxWordLen) }

\* the Guess values handed to add_guess: one classification per character
Guesses(w) == { [guess |-> w, result |-> r] : r \in [1..Len(w) -> Correctness] }

InitStore ==
  /\ dictionary \in StoreDicts
  /\ guesses = <<>>
  /\ incorrect_letters = <<>> /\ correct_letters = <<>>
  /\ misplaced_letters = <<>>
  /\ lines = <<>> /\ init_guess = <<>> /\ target = <<>> /\ word = <<>>
  /\ num_choices = 0 /\ choice = 0
  /\ ret = NoRet
  /\ pc = "store"

AddGuess ==
  /\ pc = "store"
  /\ Len(guesses) < MaxGuesses
  /\ \E w \in AllWords :
       /\ Len(incorrect_letters) + Len(misplaced_letters)
            + Len(correct_letters) + Len(w) <= MaxEvidence
       /\ \E g \in Guesses(w) :
            LET r == add_guess(guesses, dictionary, incorrect_letters,
                               correct_letters, misplaced_letters, g)
            IN /\ guesses' = r.guesses
               /\ dictionary' = r.dictionary
               /\ incorrect_letters' = r.incorrect_letters
               /\ correct_letters' = r.correct_letters
               /\ misplaced_letters' = r.misplaced_letters
               /\ pc' = IF r.panicked THEN "panic" ELSE "store"
  /\ ret' = NoRet
  /\ UNCHANGED <<config, locals>>

\* the retain step of add_guess run once more on the store as it stands
Refilter ==
  /\ pc = "store"
  /\ Len(guesses) > 0
  /\ LET r == retain(dictionary, 1, <<>>, incorrect_letters,
                     misplaced_letters, correct_letters,
                     Last(guesses).guess)
     IN /\ dictionary' = r.dictionary
        /\ pc' = IF r.panicked THEN "panic" ELSE "refiltered"
  /\ ret' = NoRet
  /\ UNCHANGED <<guesses, incorrect_letters, correct_letters,
                 misplaced_letters, config, locals>>

\* is_solved takes &self: it is asked of a store and leaves it as it is
IsSolved ==
  /\ pc = "store"
  /\ ret' = is_solved(guesses)
  /\ pc' = IF ret'.kind = "panic" THEN "panic" ELSE "asked"
  /\ UNCHANGED <<wordle, config, locals>>

NextStore == AddGuess \/ Refilter \/ IsSolved

SpecStore == InitStore /\ [][NextStore]_vars

\* -------------------------------------------------- claims about the store
RECURSIVE IsSubseq(_, _)
\* a is b with some elements left out, the order of the others kept
IsSubseq(a, b) ==
  IF a = <<>> THEN TRUE
  ELSE IF b = <<>> THEN FALSE
  ELSE IF Head(a) = Head(b) THEN IsSubseq(Tail(a), Tail(b))
  ELSE IsSubseq(a, Tail(b))

\* C5: the candidate dictionary never regrows: after every add_guess its
\* length is at most its length before the call, and the new dictionary is
\* an order-preserving subsequence of the old one.
C5_DictionaryShrinks ==
  [][Len(dictionary') <= Len(dictionary)
       /\ IsSubseq(dictionary', dictionary)]_vars

\* two guesses recorded, the dictionary cut down by them and not empty
C5_Witness ==
  /\ pc = "store" /\ Len(guesses) = 2
  /\ Len(dictionary) > 1
  /\ \A d \in StoreDicts : Len(dictionary) < Len(d)

\* C6: filtering is idempotent: the retain step run a second time with the
\* same excluded, required and pinned letters on the filtered dictionary
\* returns the same dictionary, same words in the same order.
C6_RefilterIdempotent ==
  [][Refilter => (pc' = "refiltered" /\ dictionary' = dictionary)]_vars

C6_Witness ==
  /\ pc = "refiltered"
  /\ Len(dictionary) > 0
  /\ Len(incorrect_letters) > 0 /\ Len(correct_letters) > 0

\* C7: once a guess has been recorded, is_solved returns true iff every
\* position of the most recent guess's result is Correct, whatever the
\* results of the earlier guesses.
C7_IsSolvedLastGuess ==
  /\ (pc = "asked") =>
       (/\ Len(guesses) > 0
        /\ ret = Ok(\A i \in 1..Len(Last(guesses).result) :
                      Last(guesses).result[i] = "Correct"))
  /\ (ret.kind = "panic") => Len(guesses) = 0

\* an earlier guess all Correct, the last one not: is_solved is false
C7_Witness ==
  /\ pc = "asked" /\ Len(guesses) = 2
  /\ Len(guesses[1].result) > 0
  /\ \A i \in 1..Len(guesses[1].result) : guesses[1].result[i] = "Correct"
  /\ \E i \in 1..Len(guesses[2].result) : guesses[2].result[i] /= "Correct"
  /\ ret = Ok(FALSE)

\* ========================================================= a session of main
Init ==
  /\ lines \in SeqsUpTo(Vocabulary, MaxDict)
  /\ init_guess \in Vocabulary
  /\ target \in Vocabulary
  /\ dictionary = lines
  /\ guesses = <<>>
  /\ incorrect_letters = <<>> /\ correct_letters = <<>>
  /\ misplaced_letters = <<>>
  /\ word = <<>> /\ num_choices = 0 /\ choice = 0
  /\ ret = NoRet
  /\ pc = "first"

\* Guess { guess: w, result: check_guess(&w, &config.target) } handed to
\* wordle.add_guess; a panic of either call ends the process
TakeGuess(w) ==
  LET s == check_guess(w, target) IN
  IF s.kind = "panic"
    THEN /\ pc' = "panic"
         /\ UNCHANGED wordle
    ELSE LET r == add_guess(guesses, dictionary, incorrect_letters,
                            correct_letters, misplaced_letters,
                            [guess |-> w, result |-> s.val])
         IN /\ guesses' = r.guesses
            /\ dictionary' = r.dictionary
            /\ incorrect_letters' = r.incorrect_letters
            /\ correct_letters' = r.correct_letters
            /\ misplaced_letters' = r.misplaced_letters
            /\ pc' = IF r.panicked THEN "panic" ELSE "loop"

FirstGuess ==
  /\ pc = "first"
  /\ TakeGuess(init_guess)
  /\ UNCHANGED <<config, locals, ret>>

\* while !wordle.is_solved() && wordle.dictionary.len() > 0
LoopCondition == ~is_solved(guesses).val /\ Len(dictionary) > 0

\* the loop body of main: the next word is dictionary.first()
LoopFirst ==
  /\ pc = "loop"
  /\ LoopCondition
  /\ TakeGuess(dictionary[1])
  /\ UNCHANGED <<config, locals, ret>>

\* the loop body with the next word picked by the selector, which may
\* return any word of the dictionary
LoopChoose ==
  /\ pc = "loop"
  /\ LoopCondition
  /\ \E i \in 1..Len(dictionary) : TakeGuess(dictionary[i])
  /\ UNCHANGED <<config, locals, ret>>

Exit ==
  /\ pc = "loop"
  /\ ~LoopCondition
  /\ pc' = "done"
  /\ UNCHANGED <<wordle, config, locals, ret>>

Next == FirstGuess \/ LoopFirst \/ LoopChoose \/ Exit

Spec == Init /\ [][Next]_vars

\* main from its entry: nothing is read yet
InitMain ==
  /\ lines = <<>> /\ init_guess = <<>> /\ target = <<>>
  /\ dictionary = <<>>
  /\ guesses = <<>>
  /\ incorrect_letters = <<>> /\ correct_letters = <<>>
  /\ misplaced_letters = <<>>
  /\ word = <<>> /\ num_choices = 0 /\ choice = 0
  /\ ret = NoRet
  /\ pc = "start"

\* Config::new(&args), read_lines_from_file and Wordle::new(lines)
Load ==
  /\ pc = "start"
  /\ lines' \in SeqsUpTo(Vocabulary, MaxDict)
  /\ init_guess' \in Vocabulary
  /\ target' \in Vocabulary
  /\ dictionary' = lines'
  /\ pc' = "first"
  /\ UNCHANGED <<guesses, incorrect_letters, correct_letters,
                 misplaced_letters, locals, ret>>

NextMain == Load \/ FirstGuess \/ LoopFirst \/ LoopChoose \/ Exit

\* main has a step to take exactly at these positions: Load at start,
\* FirstGuess at first, and at loop the loop body or Exit
Running == pc \in {"start", "first", "loop"}

\* main is one sequential thread: a step that can be taken is taken. This is
\* weak fairness of NextMain with ENABLED <<NextMain>>_vars written as Running.
FairSpec ==
  /\ InitMain
  /\ [][NextMain]_vars
  /\ ([]<>(~Running) \/ []<><<NextMain>>_vars)

\* ------------------------------------------------ claims about a session
\* C8: after add_guess(g) the dictionary holds no word equal to g's word,
\* also when that word passes every excluded, required and pinned letter;
\* so with every next guess taken from the dictionary no word is guessed
\* twice.
C8_GuessedWordRemoved ==
  /\ (pc \in {"loop", "done"}) =>
       \A k \in 1..Len(guesses) :
         \A j \in 1..Len(dictionary) : dictionary[j] /= guesses[k].guess
  /\ \A j, k \in 1..Len(guesses) :
       j /= k => guesses[j].guess /= guesses[k].guess

\* the last of three guesses was in the dictionary and passes the filter
\* with the letters recorded from it, yet it is gone
C8_Witness ==
  /\ pc = "loop" /\ Len(guesses) = 3
  /\ filter_dictionary(Last(guesses).guess, incorrect_letters,
                       misplaced_letters, correct_letters) = Ok(TRUE)
  /\ Len(dictionary) > 0

\* =================================================== selector, called alone
\* n words of the Lexicon from the s-th on, going round, every stride-th
Progression(n, start, stride) ==
  [k \in 1..n |-> Lexicon[((start - 1 + (k - 1) * stride) % Len(Lexicon)) + 1]]

\* the word lists handed to the selector: n copies of one word, and n
\* consecutive words
SelDicts ==
  { Progression(n, start, stride) :
      n \in 0..MaxSelDict, start \in 1..Len(Lexicon), stride \in {0, 1} }

InitSel ==
  /\ dictionary \in SelDicts
  /\ guesses = <<>> /\ lines = <<>>
  /\ incorrect_letters = <<>> /\ correct_letters = <<>>
  /\ misplaced_letters = <<>>
  /\ init_guess = <<>> /\ target = <<>> /\ word = <<>>
  /\ num_choices = 0 /\ choice = 0
  /\ ret = NoRet
  /\ pc = "choose"

\* dict.choose(&mut rng) is None on an empty slice, and unwrap panics
SampleEmpty ==
  /\ pc = "choose"
  /\ Len(dictionary) = 0
  /\ ret' = Panic
  /\ pc' = "panic"
  /\ UNCHANGED <<wordle, config, locals>>

\* a sample that is returned
SampleReturn ==
  /\ pc = "choose"
  /\ \E idx \in 1..Len(dictionary) :
       /\ choose_step(dictionary, idx, num_choices + 1).kind = "ok"
       /\ choice' = idx
       /\ num_choices' = num_choices + 1
       /\ ret' = choose_step(dictionary, idx, num_choices + 1)
  /\ pc' = "chosen"
  /\ UNCHANGED <<wordle, config, word>>

\* a sample that is rejected
SampleAgain ==
  /\ pc = "choose"
  /\ \E idx \in 1..Len(dictionary) :
       /\ choose_step(dictionary, idx, num_choices + 1).kind = "again"
       /\ choice' = idx
       /\ num_choices' = num_choices + 1
  /\ UNCHANGED <<wordle, config, word, ret, pc>>

NextSel == SampleEmpty \/ SampleReturn \/ SampleAgain

SpecSel == InitSel /\ [][NextSel]_vars

\* ----------------------------------------------- claims about the selector
\* C9: for a non-empty dictionary choose_next_guess returns a word of that
\* dictionary, whatever the samples drawn, and leaves the dictionary as
\* it is.
C9_ChoiceFromDictionary ==
  [][/\ dictionary' = dictionary
     /\ Len(dictionary) > 0 => pc' /= "panic"
     /\ pc' = "chosen" =>
          (/\ ret'.kind = "ok"
           /\ \E j \in 1..Len(dictionary) : dictionary[j] = ret'.val)]_vars

\* a word with a repeated letter returned from a long dictionary as the
\* sample after MaxRejections rejections
C9_Witness ==
  /\ pc = "chosen" /\ Len(dictionary) >= SmallDict
  /\ num_choices = MaxRejections + 1
  /\ has_double_letter(ret.val)
  /\ \E j \in 1..Len(dictionary) : ~has_double_letter(dictionary[j])

\* C10: choose_next_guess on an empty dictionary fails with an
\* EmptyCandidateSet error value; it does not panic and returns no word.
C10_EmptyIsError ==
  (Len(dictionary) = 0 /\ pc /= "choose") =>
    (pc /= "panic" /\ ret.kind = "err")

\* C11: choose_next_guess draws a bounded number of samples: with fewer than
\* 10 words it returns the first sample; with 10 or more it rejects only a
\* sample with a repeated letter, at most 4 times, so it draws at most 5
\* samples and returns a word with a repeated letter only as the fifth; a
\* sample without a repeated letter is returned at once.
C11_BoundedSampling ==
  /\ num_choices <= 5
  /\ (pc = "choose") =>
       (/\ num_choices <= 4
        /\ num_choices > 0 =>
             (Len(dictionary) >= 10 /\ has_double_letter(dictionary[choice])))
  /\ (pc = "chosen") =>
       (/\ num_choices >= 1
        /\ ret = Ok(dictionary[choice])
        /\ Len(dictionary) < 10 => num_choices = 1
        /\ (Len(dictionary) >= 10 /\ has_double_letter(ret.val)) =>
             num_choices = 5)

\* a word without a repeated letter returned from a long dictionary after
\* two rejections
C11_Witness ==
  /\ pc = "chosen" /\ Len(dictionary) >= SmallDict
  /\ num_choices = 3
  /\ ~has_double_letter(ret.val)

\* ------------------------------------------- the end-to-end scenario of main
hello == <<"h", "e", "l", "l", "o">>

shirt == <<"s", "h", "i", "r", "t">>

skirt == <<"s", "k", "i", "r", "t">>

Scenario ==
  /\ lines = <<hello, shirt, skirt>>
  /\ target = skirt
  /\ init_guess = shirt

\* C12: with the word list ["hello","shirt","skirt"], target "skirt" and
\* initial guess "shirt", the first score is [Correct, Absent, Correct,
\* Correct, Correct]; after it is recorded the dictionary is ["skirt"]; the
\* next pick is "skirt" and the session is solved after exactly 2 guesses.
C12_EndToEnd ==
  Scenario =>
    /\ pc /= "panic"
    /\ Len(guesses) <= 2
    /\ Len(guesses) >= 1 =>
         guesses[1] = [guess |-> shirt,
                       result |-> <<"Correct", "Incorrect", "Correct",
                                    "Correct", "Correct">>]
    /\ Len(guesses) = 1 =>
         (pc = "loop" /\ dictionary = <<skirt>>
            /\ is_solved(guesses) = Ok(FALSE))
    /\ Len(guesses) = 2 =>
         (guesses[2].guess = skirt /\ is_solved(guesses) = Ok(TRUE))
    /\ pc = "done" => Len(guesses) = 2

C12_Witness ==
  /\ Scenario
  /\ pc = "done" /\ Len(guesses) = 2
  /\ Last(guesses).guess = skirt

\* ------------------------------------------------- claims about the errors
\* C13: scoring a guess whose length differs from the target's fails with
\* an InvalidLength error; it neither panics nor returns a result.
C13_MismatchIsError ==
  (pc = "scored" /\ Len(init_guess) /= Len(target)) => ret.kind = "err"

\* C14: when a pinned position is no index of a dictionary word, filtering
\* reports an IndexOutOfRange error, and the add_guess call that hits it
\* leaves the excluded, required and pinned letters and the dictionary as
\* they were before the call.
C14_BadPinIsError ==
  [][(pc = "store" /\ Len(guesses') > Len(guesses)
        /\ \E j \in 1..Len(dictionary) :
             filter_dictionary(dictionary[j], incorrect_letters',
                               misplaced_letters', correct_letters') = Panic)
       => (/\ ret'.kind = "err"
           /\ UNCHANGED <<incorrect_letters, misplaced_letters,
                          correct_letters, dictionary>>)]_vars

\* ------------------------------------------- claims about the constraints
IsPrefix(a, b) == Len(a) <= Len(b) /\ SubSeq(b, 1, Len(a)) = a

\* the entries b has after its prefix a
Added(a, b) == { b[k] : k \in (Len(a) + 1)..Len(b) }

\* C15: add_guess(g) appends g to the guess history, which grows by one
\* with its earlier entries unchanged, and for each position i of g adds
\* (g[i], i) to the pinned letters if the result is Correct, g[i] to the
\* required letters if Misplaced and g[i] to the excluded letters if Absent;
\* nothing is ever removed from the three collections.
C15_RecordExtends ==
  [][/\ IsPrefix(guesses, guesses')
     /\ IsPrefix(incorrect_letters, incorrect_letters')
     /\ IsPrefix(misplaced_letters, misplaced_letters')
     /\ IsPrefix(correct_letters, correct_letters')
     /\ guesses' = guesses =>
          UNCHANGED <<incorrect_letters, misplaced_letters, correct_letters>>
     /\ guesses' /= guesses =>
          LET g == Last(guesses') IN
          /\ Len(guesses') = Len(guesses) + 1
          /\ Added(correct_letters, correct_letters') =
               { <<g.guess[i], i - 1>> :
                   i \in { k \in 1..Len(g.guess) : g.result[k] = "Correct" } }
          /\ Added(misplaced_letters, misplaced_letters') =
               { g.guess[i] :
                   i \in { k \in 1..Len(g.guess) :
                             g.result[k] = "IncorrectPlacement" } }
          /\ Added(incorrect_letters, incorrect_letters') =
               { g.guess[i] :
                   i \in { k \in 1..Len(g.guess) :
                             g.result[k] = "Incorrect" } }
          /\ Len(incorrect_letters') + Len(misplaced_letters')
               + Len(correct_letters')
               = Len(incorrect_letters) + Len(misplaced_letters)
                   + Len(correct_letters) + Len(g.guess)]_vars

\* two guesses recorded, one letter pinned and one required
C15_Witness ==
  /\ pc = "store" /\ Len(guesses) = 2
  /\ Len(guesses[1].guess) = 1 /\ Len(guesses[2].guess) = 1
  /\ Len(correct_letters) = 1 /\ Len(misplaced_letters) = 1
  /\ Len(dictionary) > 0

\* C16: in a session whose guesses are all scored by check_guess against
\* the same target, no letter is both excluded and required, and no
\* position is pinned to two different characters.
C16_ConstraintsConsistent ==
  /\ Range(incorrect_letters) \cap Range(misplaced_letters) = {}
  /\ \A p, q \in Range(correct_letters) : p[2] = q[2] => p[1] = q[1]

\* two guesses scored, with letters excluded, required and pinned, and a
\* position pinned by both guesses
C16_Witness ==
  /\ pc = "loop" /\ Len(guesses) >= 2
  /\ Len(incorrect_letters) > 0 /\ Len(misplaced_letters) > 0
  /\ \E j, k \in 1..Len(correct_letters) :
       j /= k /\ correct_letters[j] = correct_letters[k]

\* C17: the filter applies exclusion and requirement independently: when a
\* character is both excluded and required, filter_dictionary rejects every
\* word, and the filtered dictionary is empty.
C17_ConflictRejectsAll ==
  (Range(incorrect_letters) \cap Range(misplaced_letters) /= {}) =>
    /\ pc /= "panic"
    /\ dictionary = <<>>
    /\ \A w \in AllWords :
         filter_dictionary(w, incorrect_letters, misplaced_letters,
                           correct_letters) = Ok(FALSE)

\* a letter excluded by one guess and required by the next
C17_Witness ==
  /\ pc = "store" /\ Len(guesses) = 2
  /\ Len(incorrect_letters) = 1
  /\ incorrect_letters = misplaced_letters
  /\ dictionary = <<>>

\* ------------------------------------------ claims about the target's fate
\* every word of the session has the target's length
UniformLength ==
  /\ Len(init_guess) = Len(target)
  /\ \A j \in 1..Len(lines) : Len(lines[j]) = Len(target)

Guessed(w) == \E k \in 1..Len(guesses) : guesses[k].guess = w

\* C18: in a session where all words have the target's length and every
\* guess is scored against the same target, a target that is in the initial
\* dictionary stays in the dictionary until it is itself guessed.
C18_TargetRetained ==
  (UniformLength /\ target \in Range(lines) /\ ~Guessed(target)) =>
    (pc /= "panic" /\ target \in Range(dictionary))

\* two guesses other than the target, letters required and pinned, other
\* words gone, the target still there
C18_Witness ==
  /\ UniformLength /\ Len(target) > 0
  /\ pc = "loop" /\ Len(guesses) = 2 /\ ~Guessed(target)
  /\ Len(misplaced_letters) > 0 /\ Len(correct_letters) > 0
  /\ dictionary = <<target>>
  /\ Len(lines) = MaxDict

\* every word of the word list has the target's length
DictUniform == \A j \in 1..Len(lines) : Len(lines[j]) = Len(target)

\* C19: with a dictionary of words of the target's length, every loop
\* iteration guesses a word of the current dictionary and strictly shortens
\* the dictionary, so the session makes at most 1 + N guesses, N the length
\* of the initial dictionary.
C19_LoopBounded ==
  [][DictUniform =>
       /\ Len(guesses') <= 1 + Len(lines)
       /\ (pc = "loop" /\ pc' /= "done") =>
            (/\ pc' = "loop"
             /\ Len(guesses') = Len(guesses) + 1
             /\ Last(guesses').guess \in Range(dictionary)
             /\ Len(dictionary') < Len(dictionary))]_vars

C19_Witness ==
  /\ DictUniform /\ Len(lines) = MaxDict
  /\ pc = "done"
  /\ Len(guesses) = Len(lines)
  /\ is_solved(guesses) = Ok(FALSE)

====
